---- MODULE Spec2Model ----
(***************************************************************************)
(* Model of the FarmerAssess page component                                *)
(* (src/src/app/dashboard/farmer/assess/page.tsx): the React state of the  *)
(* component, the image-input handler, and the handleAssess handler with   *)
(* its three suspension points (file read, diagnostic request, generation  *)
(* request).  Every step between two awaits is one action; the state       *)
(* updates of one step are batched by React and become visible together.   *)
(***************************************************************************)
EXTENDS Integers, Sequences, FiniteSets, TLC

(* ---------------------------- bounds ---------------------------------- *)

\* longest disease list the diagnostic service returns in the model
MaxDiseases == 1

\* number of object URLs URL.createObjectURL hands out in the model
MaxUrls == 2

(* ------------------------- values and inputs -------------------------- *)

\* JavaScript null / undefined, for the record-valued variables.  The field
\* holds a set, which is the image of no JSON value (a JSON array is a
\* sequence), so that null differs from every object a response can carry,
\* the object { "isNull": true } included.
null == [isNull |-> {}]

\* the files the user can pick in the file dialog
Files ==
  { [name |-> "leaf.jpg", type |-> "image/jpeg", data |-> "bGVhZg"],
    [name |-> "rose.png", type |-> "image/png", data |-> "cm9zZQ"] }

\* Disease records of the diagnostic service; probability in thousandths
Diseases ==
  { [name |-> "Late blight", probability |-> 823],
    [name |-> "Rust", probability |-> 500] }

RECURSIVE SeqsUpTo(_, _)
SeqsUpTo(S, n) ==
  IF n = 0 THEN { <<>> }
  ELSE LET shorter == SeqsUpTo(S, n - 1)
       IN shorter \cup { Append(s, x) : s \in shorter, x \in S }

DiseaseLists == SeqsUpTo(Diseases, MaxDiseases)

\* the four fields of a TreatmentPlan
PlanFields ==
  { "immediate_steps", "long_term_prevention",
    "organic_alternatives", "chemical_solutions" }

\* a response body that is not JSON: response.json() rejects
NoJson == [unparsable |-> TRUE]

\* JSON objects the generation service can answer with: any subset of the
\* four fields, each an empty or a non-empty list of strings.  A field that
\* is there with a falsy value (null, '', 0, false) is treated by ValidPlan
\* like a field that is not there; the bodies range over lists only, so
\* that all values of a field are of one kind.
PlanBodies ==
  UNION { [S -> { <<>>, <<"Apply copper fungicide">> }] : S \in SUBSET PlanFields }

\* responses of fetch('/api/generate-treatment'): the promise rejects, or it
\* resolves to a response with a status and a body
GenResponses ==
  { [rejected |-> TRUE, ok |-> FALSE, json |-> NoJson] }
  \cup { [rejected |-> FALSE, ok |-> FALSE, json |-> j] :
           j \in { NoJson, [details |-> "model overloaded"] } }
  \cup { [rejected |-> FALSE, ok |-> TRUE, json |-> j] :
           j \in { NoJson } \cup PlanBodies }

\* bodies of the diagnostic service: not JSON, an object without
\* health_assessment, or an object with a disease list
DiagBodies ==
  { NoJson, [message |-> "invalid api key"] }
  \cup { [health_assessment |-> [diseases |-> ds]] : ds \in DiseaseLists }

\* responses of fetch('https://api.plant.id/v2/health_assessment')
DiagResponses ==
  { [rejected |-> TRUE, ok |-> FALSE, json |-> NoJson] }
  \cup { [rejected |-> FALSE, ok |-> o, json |-> j] :
           o \in BOOLEAN, j \in DiagBodies }

\* the treatment plan of a result whose generation is pending
EmptyPlan ==
  [immediate_steps |-> <<>>, long_term_prevention |-> <<>>,
   organic_alternatives |-> <<>>, chemical_solutions |-> <<>>]

\* the hardcoded plan generateTreatmentPlan returns from its catch block
FallbackPlan ==
  [immediate_steps |->
     << "Isolate affected plants to prevent spread",
        "Remove and destroy severely infected parts",
        "Monitor plant health daily" >>,
   long_term_prevention |->
     << "Maintain proper plant spacing for air circulation",
        "Follow recommended watering practices",
        "Regular inspection of plants" >>,
   organic_alternatives |->
     << "Use neem oil solution",
        "Apply baking soda spray",
        "Try garlic-based natural fungicide" >>,
   chemical_solutions |->
     << "Consult with a local agricultural expert for specific chemical treatments",
        "Follow safety guidelines when using chemical treatments" >>]

(* ------------------------------ state --------------------------------- *)

VARIABLES
  selectedImage,          \* useState<File | null>
  previewUrl,             \* useState<string>: 0 is '', n > 0 is the n-th object URL
  isLoading,              \* useState(false)
  isGeneratingTreatment,  \* useState(false)
  result,                 \* useState<AssessmentResult | null>
  objectUrls,             \* the browser's object-URL store: objectUrls[n] is the file of URL n
  pc,                     \* position of the running handleAssess, "idle" when none runs
  closure,                \* selectedImage and previewUrl as captured by the running handleAssess
  diagRequest,            \* body of the diagnostic request in flight, or null
  genRequest,             \* body of the generation request in flight, or null
  diagResponse,           \* response the running/last handleAssess got from the diagnostic service
  genResponse,            \* response the running/last handleAssess got from the generation service
  treatmentPlan,          \* const treatmentPlan of the running/last handleAssess, null while unassigned
  toasts,                 \* titles passed to toast() by the running/last handleAssess, in order
  diagCalls,              \* diagnostic requests issued by the running/last handleAssess
  genCalls,               \* generation requests issued by the running/last handleAssess
  diagnosedSinceSelect    \* a diagnostic request succeeded since the last image selection

vars ==
  << selectedImage, previewUrl, isLoading, isGeneratingTreatment, result,
     objectUrls, pc, closure, diagRequest, genRequest, diagResponse,
     genResponse, treatmentPlan, toasts, diagCalls, genCalls,
     diagnosedSinceSelect >>

reactState == << selectedImage, previewUrl, isLoading, isGeneratingTreatment, result >>

invocation ==
  << pc, closure, diagRequest, genRequest, diagResponse, genResponse,
     treatmentPlan, toasts, diagCalls, genCalls >>

Init ==
  /\ selectedImage = null
  /\ previewUrl = 0
  /\ isLoading = FALSE
  /\ isGeneratingTreatment = FALSE
  /\ result = null
  /\ objectUrls = <<>>
  /\ pc = "idle"
  /\ closure = null
  /\ diagRequest = null
  /\ genRequest = null
  /\ diagResponse = null
  /\ genResponse = null
  /\ treatmentPlan = null
  /\ toasts = <<>>
  /\ diagCalls = 0
  /\ genCalls = 0
  /\ diagnosedSinceSelect = FALSE

(* -------------------------- pure functions ---------------------------- *)

\* outcome of a block of code that either throws or yields a value
Thrown == [threw |-> TRUE, value |-> null]
Returned(v) == [threw |-> FALSE, value |-> v]

\* FileReader.readAsDataURL: 'data:<type>;base64,<data>', kept as the two
\* parts around the comma
ReadAsDataURL(file) == [mediatype |-> file.type, base64 |-> file.data]

\* base64.split(',')[1]
Base64Part(dataUrl) == dataUrl.base64

\* body of the diagnostic request: the image is always labelled image/jpeg
DiagnosticRequest(base64Image) ==
  [images |-> << [mediatype |-> "image/jpeg", base64 |-> base64Image] >>,
   organs |-> << "leaf", "flower" >>,
   health_assessment |-> TRUE,
   details |-> << "disease", "description", "treatment" >>]

\* (probability * 100).toFixed(1) for a probability given in thousandths:
\* the integer part and the single decimal of the percentage
ToFixed1(probability) == << probability \div 10, probability % 10 >>

\* the list the prompt joins with ", ": '<name> (<pct>% confidence)'
PromptEntries(diseases) ==
  [i \in 1..Len(diseases) |->
     [name |-> diseases[i].name, confidence |-> ToFixed1(diseases[i].probability)]]

\* GenerationRequest with a placeholder disease substituted for an empty list
GenerationRequest_placeholderWhenEmpty(diseases) ==
  IF diseases = <<>>
  THEN [diseases |-> << [name |-> "Unknown", probability |-> 0] >>,
        prompt |-> PromptEntries(<< [name |-> "Unknown", probability |-> 0] >>)]
  ELSE [diseases |-> diseases, prompt |-> PromptEntries(diseases)]

\* JSON.stringify({ diseases, prompt })
GenerationRequest(diseases) ==
  [diseases |-> diseases, prompt |-> PromptEntries(diseases)]

\* a JavaScript value that is falsy: null, '', 0 or false.  Arrays and
\* objects, the empty array included, are truthy.  The values are told
\* apart by their printed form, which is defined for every kind of value.
Falsy(value) ==
  ToString(value) \in { ToString(null), ToString(""), ToString(0), ToString(FALSE) }

\* data.<field> is truthy: the field is there and its value is not falsy
Truthy(data, field) ==
  /\ field \in DOMAIN data
  /\ ~Falsy(data[field])

\* ValidPlan without the check of chemical_solutions
ValidPlan_skipsChemical(data) ==
  /\ Truthy(data, "immediate_steps")
  /\ Truthy(data, "long_term_prevention")
  /\ Truthy(data, "organic_alternatives")

\* ValidPlan checking the first field only
ValidPlan_firstFieldOnly(data) ==
  Truthy(data, "immediate_steps")

\* the structure check of generateTreatmentPlan: none of the four is falsy
ValidPlan(data) ==
  /\ Truthy(data, "immediate_steps")
  /\ Truthy(data, "long_term_prevention")
  /\ Truthy(data, "organic_alternatives")
  /\ Truthy(data, "chemical_solutions")

\* the try block of generateTreatmentPlan from the resolution of fetch on
TryGenerate(response) ==
  IF response.rejected THEN Thrown
  ELSE IF ~response.ok THEN Thrown
  ELSE IF response.json = NoJson THEN Thrown
  ELSE IF ~ValidPlan(response.json) THEN Thrown
  ELSE Returned(response.json)

\* generateTreatmentPlan whose catch block rethrows
generateTreatmentPlan_rethrows(response) ==
  TryGenerate(response)

\* generateTreatmentPlan: whatever the try block throws is caught and
\* answered with the fallback plan
generateTreatmentPlan(response) ==
  IF TryGenerate(response).threw
  THEN Returned(FallbackPlan)
  ELSE TryGenerate(response)

\* DiagnosisData without the check of response.ok
DiagnosisData_ignoresStatus(response) ==
  IF response.rejected THEN Thrown
  ELSE IF response.json = NoJson THEN Thrown
  ELSE IF "health_assessment" \notin DOMAIN response.json THEN Thrown
  ELSE Returned(response.json.health_assessment.diseases)

\* handleAssess from the resolution of the diagnostic fetch up to the
\* disease list it hands to setResult
DiagnosisData(response) ==
  IF response.rejected THEN Thrown
  ELSE IF ~response.ok THEN Thrown
  ELSE IF response.json = NoJson THEN Thrown
  ELSE IF "health_assessment" \notin DOMAIN response.json THEN Thrown
  ELSE Returned(response.json.health_assessment.diseases)

(* ------------------------------ actions ------------------------------- *)

\* ImageInputEnabled without the disabled attribute
ImageInputEnabled_always == TRUE

\* the file input is enabled
ImageInputEnabled == ~isLoading

\* AssessButtonEnabled that is not disabled while loading
AssessButtonEnabled_ignoresLoading == ~(selectedImage = null)

\* the Assess button is enabled
AssessButtonEnabled == ~(selectedImage = null \/ isLoading)

\* handleImageSelect without setResult(null)
handleImageSelect_keepsResult(file) ==
  /\ ImageInputEnabled
  /\ IF file # null
     THEN /\ Len(objectUrls) < MaxUrls
          /\ selectedImage' = file
          /\ objectUrls' = Append(objectUrls, file)
          /\ previewUrl' = Len(objectUrls) + 1
          /\ diagnosedSinceSelect' = FALSE
          /\ UNCHANGED << result, isLoading, isGeneratingTreatment, invocation >>
     ELSE UNCHANGED vars

\* handleImageSelect without setPreviewUrl
handleImageSelect_keepsPreview(file) ==
  /\ ImageInputEnabled
  /\ IF file # null
     THEN /\ Len(objectUrls) < MaxUrls
          /\ selectedImage' = file
          /\ objectUrls' = Append(objectUrls, file)
          /\ result' = null
          /\ diagnosedSinceSelect' = FALSE
          /\ UNCHANGED << previewUrl, isLoading, isGeneratingTreatment, invocation >>
     ELSE UNCHANGED vars

\* handleImageSelect that resets the selection when the event has no file
handleImageSelect_resetsOnCancel(file) ==
  /\ ImageInputEnabled
  /\ IF file # null
     THEN /\ Len(objectUrls) < MaxUrls
          /\ selectedImage' = file
          /\ objectUrls' = Append(objectUrls, file)
          /\ previewUrl' = Len(objectUrls) + 1
          /\ result' = null
          /\ diagnosedSinceSelect' = FALSE
          /\ UNCHANGED << isLoading, isGeneratingTreatment, invocation >>
     ELSE /\ selectedImage' = null
          /\ previewUrl' = 0
          /\ result' = null
          /\ diagnosedSinceSelect' = FALSE
          /\ UNCHANGED << isLoading, isGeneratingTreatment, objectUrls, invocation >>

\* change event of the file input; file = null when the event carries no file
handleImageSelect(file) ==
  /\ ImageInputEnabled
  /\ IF file # null
     THEN /\ Len(objectUrls) < MaxUrls
          /\ selectedImage' = file
          /\ objectUrls' = Append(objectUrls, file)
          /\ previewUrl' = Len(objectUrls) + 1
          /\ result' = null
          /\ diagnosedSinceSelect' = FALSE
          /\ UNCHANGED << isLoading, isGeneratingTreatment, invocation >>
     ELSE UNCHANGED vars

\* handleAssessCall without the check of selectedImage
handleAssessCall_noImageCheck ==
  /\ isLoading' = TRUE
  /\ pc' = "reading"
  /\ closure' = [selectedImage |-> selectedImage, previewUrl |-> previewUrl]
  /\ toasts' = <<>>
  /\ diagCalls' = 0
  /\ genCalls' = 0
  /\ diagResponse' = null
  /\ genResponse' = null
  /\ treatmentPlan' = null
  /\ UNCHANGED << selectedImage, previewUrl, isGeneratingTreatment, result,
                  objectUrls, diagRequest, genRequest, diagnosedSinceSelect >>

\* a call of handleAssess, up to its first await
handleAssessCall ==
  IF selectedImage = null
  THEN /\ toasts' = << "No image selected" >>
       /\ diagCalls' = 0
       /\ genCalls' = 0
       /\ diagResponse' = null
       /\ genResponse' = null
       /\ treatmentPlan' = null
       /\ UNCHANGED << reactState, objectUrls, pc, closure, diagRequest,
                       genRequest, diagnosedSinceSelect >>
  ELSE /\ isLoading' = TRUE
       /\ pc' = "reading"
       /\ closure' = [selectedImage |-> selectedImage, previewUrl |-> previewUrl]
       /\ toasts' = <<>>
       /\ diagCalls' = 0
       /\ genCalls' = 0
       /\ diagResponse' = null
       /\ genResponse' = null
       /\ treatmentPlan' = null
       /\ UNCHANGED << selectedImage, previewUrl, isGeneratingTreatment, result,
                       objectUrls, diagRequest, genRequest, diagnosedSinceSelect >>

\* click on Assess
handleAssess ==
  /\ AssessButtonEnabled
  /\ handleAssessCall

\* handleAssess called with no image selected.  The Assess button is
\* disabled in that state, so no click gets there: this is a call of the
\* handler that does not come from the button.
handleAssessNoImage ==
  /\ selectedImage = null
  /\ handleAssessCall

\* onloadend of the FileReader.  After a successful read the promise
\* resolves and the diagnostic request is issued.  After a failed read
\* reader.result is null, split throws inside the callback, the promise is
\* never resolved and handleAssess never resumes.
FileReadEnds(success) ==
  /\ pc = "reading"
  /\ IF success
     THEN /\ diagRequest' =
               DiagnosticRequest(Base64Part(ReadAsDataURL(closure.selectedImage)))
          /\ diagCalls' = diagCalls + 1
          /\ pc' = "diagnosing"
     ELSE /\ pc' = "hung"
          /\ UNCHANGED << diagRequest, diagCalls >>
  /\ UNCHANGED << reactState, objectUrls, closure, genRequest, diagResponse,
                  genResponse, treatmentPlan, toasts, genCalls, diagnosedSinceSelect >>

\* AssessmentFailed whose catch block also discards the displayed result
AssessmentFailed_clearsResult ==
  /\ toasts' = Append(toasts, "Assessment Failed")
  /\ result' = null
  /\ isLoading' = FALSE
  /\ pc' = "idle"
  /\ closure' = null
  /\ diagRequest' = null
  /\ UNCHANGED << selectedImage, previewUrl, isGeneratingTreatment,
                  objectUrls, genRequest, genResponse, treatmentPlan,
                  diagCalls, genCalls, diagnosedSinceSelect >>

\* AssessmentFailed whose catch block issues the diagnostic request again
AssessmentFailed_retries ==
  /\ diagCalls' = diagCalls + 1
  /\ pc' = "diagnosing"
  /\ UNCHANGED << reactState, objectUrls, closure, diagRequest, genRequest,
                  genResponse, treatmentPlan, toasts, genCalls,
                  diagnosedSinceSelect >>

\* AssessmentFailed whose catch block does not notify
AssessmentFailed_silent ==
  /\ isLoading' = FALSE
  /\ pc' = "idle"
  /\ closure' = null
  /\ diagRequest' = null
  /\ UNCHANGED << selectedImage, previewUrl, isGeneratingTreatment, result,
                  objectUrls, genRequest, genResponse, treatmentPlan, toasts,
                  diagCalls, genCalls, diagnosedSinceSelect >>

\* catch and finally of the outer try of handleAssess
AssessmentFailed ==
  /\ toasts' = Append(toasts, "Assessment Failed")
  /\ isLoading' = FALSE
  /\ pc' = "idle"
  /\ closure' = null
  /\ diagRequest' = null
  /\ UNCHANGED << selectedImage, previewUrl, isGeneratingTreatment, result,
                  objectUrls, genRequest, genResponse, treatmentPlan,
                  diagCalls, genCalls, diagnosedSinceSelect >>

\* DiagnosisResponds without setIsGeneratingTreatment(true)
DiagnosisResponds_noGeneratingFlag(response) ==
  /\ pc = "diagnosing"
  /\ diagResponse' = response
  /\ IF DiagnosisData(response).threw
     THEN AssessmentFailed
     ELSE /\ result' =
               [diseases |-> DiagnosisData(response).value,
                treatment_plan |-> EmptyPlan,
                imageUrl |-> closure.previewUrl]
          /\ genRequest' = GenerationRequest(DiagnosisData(response).value)
          /\ genCalls' = genCalls + 1
          /\ diagRequest' = null
          /\ pc' = "generating"
          /\ diagnosedSinceSelect' = TRUE
          /\ UNCHANGED << selectedImage, previewUrl, isLoading, isGeneratingTreatment,
                          objectUrls, closure, genResponse, treatmentPlan, toasts,
                          diagCalls >>

\* the diagnostic fetch settles: handleAssess from there to the await of
\* generateTreatmentPlan, which runs up to its own fetch
DiagnosisResponds(response) ==
  /\ pc = "diagnosing"
  /\ diagResponse' = response
  /\ IF DiagnosisData(response).threw
     THEN AssessmentFailed
     ELSE /\ result' =
               [diseases |-> DiagnosisData(response).value,
                treatment_plan |-> EmptyPlan,
                imageUrl |-> closure.previewUrl]
          /\ isGeneratingTreatment' = TRUE
          /\ genRequest' = GenerationRequest(DiagnosisData(response).value)
          /\ genCalls' = genCalls + 1
          /\ diagRequest' = null
          /\ pc' = "generating"
          /\ diagnosedSinceSelect' = TRUE
          /\ UNCHANGED << selectedImage, previewUrl, isLoading, objectUrls, closure,
                          genResponse, treatmentPlan, toasts, diagCalls >>

\* GenerationResponds whose updater builds the result anew instead of
\* spreading prev
GenerationResponds_dropsPrev(response) ==
  /\ pc = "generating"
  /\ genResponse' = response
  /\ treatmentPlan' = generateTreatmentPlan(response).value
  /\ result' = [diseases |-> <<>>,
                treatment_plan |-> generateTreatmentPlan(response).value,
                imageUrl |-> previewUrl]
  /\ toasts' = Append(toasts, "Assessment Complete")
  /\ isGeneratingTreatment' = FALSE
  /\ isLoading' = FALSE
  /\ pc' = "idle"
  /\ closure' = null
  /\ genRequest' = null
  /\ UNCHANGED << selectedImage, previewUrl, objectUrls, diagRequest, diagResponse,
                  diagCalls, genCalls, diagnosedSinceSelect >>

\* the generation fetch settles: the rest of generateTreatmentPlan and the
\* rest of handleAssess
GenerationResponds(response) ==
  /\ pc = "generating"
  /\ genResponse' = response
  /\ IF ~generateTreatmentPlan(response).threw
     THEN /\ treatmentPlan' = generateTreatmentPlan(response).value
          /\ result' = IF result # null
                       THEN [result EXCEPT !.treatment_plan =
                                             generateTreatmentPlan(response).value]
                       ELSE null
          /\ toasts' = Append(toasts, "Assessment Complete")
     ELSE /\ toasts' = toasts \o << "Treatment Plan Generation Failed",
                                    "Assessment Complete" >>
          /\ UNCHANGED << treatmentPlan, result >>
  /\ isGeneratingTreatment' = FALSE
  /\ isLoading' = FALSE
  /\ pc' = "idle"
  /\ closure' = null
  /\ genRequest' = null
  /\ UNCHANGED << selectedImage, previewUrl, objectUrls, diagRequest, diagResponse,
                  diagCalls, genCalls, diagnosedSinceSelect >>

Next ==
  \/ \E file \in Files \cup { null } : handleImageSelect(file)
  \/ handleAssess
  \/ \E success \in BOOLEAN : FileReadEnds(success)
  \/ \E response \in DiagResponses : DiagnosisResponds(response)
  \/ \E response \in GenResponses : GenerationResponds(response)

Spec == Init /\ [][Next]_vars

\* the component with handleAssess also called while no image is selected
HandlerNext ==
  \/ Next
  \/ handleAssessNoImage

HandlerSpec == Init /\ [][HandlerNext]_vars

\* Spec with the scheduling the environment guarantees: a started file read
\* ends, and a fetch in flight settles
FairSpec ==
  /\ Spec
  /\ WF_vars(\E success \in BOOLEAN : FileReadEnds(success))
  /\ WF_vars(\E response \in DiagResponses : DiagnosisResponds(response))
  /\ WF_vars(\E response \in GenResponses : GenerationResponds(response))

\* the values the variables range over
TypeOK ==
  /\ selectedImage \in Files \cup { null }
  /\ previewUrl \in 0..MaxUrls
  /\ isLoading \in BOOLEAN
  /\ isGeneratingTreatment \in BOOLEAN
  /\ pc \in { "idle", "reading", "diagnosing", "generating", "hung" }
  /\ isLoading <=> pc # "idle"
  /\ Len(objectUrls) <= MaxUrls
  /\ diagResponse \in DiagResponses \cup { null }
  /\ genResponse \in GenResponses \cup { null }

(* ------------------------------ claims -------------------------------- *)

\* toast() was called with this title by the running/last handleAssess
Toasted(title) == \E i \in 1..Len(toasts) : toasts[i] = title

\* the generation response is a success-status JSON object lacking a field
GenMissingField ==
  /\ genResponse # null
  /\ ~genResponse.rejected
  /\ genResponse.ok
  /\ genResponse.json # NoJson
  /\ \E f \in PlanFields : f \notin DOMAIN genResponse.json

\* the generation request failed: fetch rejected or non-success status
GenRequestFailed ==
  /\ genResponse # null
  /\ (genResponse.rejected \/ ~genResponse.ok)

\* the diagnostic request failed: fetch rejected or non-success status
DiagRequestFailed(response) ==
  /\ response # null
  /\ (response.rejected \/ ~response.ok)

\* the diagnostic request returned a success status with a disease list
DiagSucceeded ==
  /\ diagResponse # null
  /\ ~diagResponse.rejected
  /\ diagResponse.ok
  /\ "health_assessment" \in DOMAIN diagResponse.json

\* C1: a success-status generation response that lacks at least one of the
\* four fields makes generateTreatmentPlan return the fallback plan, and the
\* plan stored in the result is that fallback plan.
C1_MissingFieldGivesFallback ==
  [][ (pc = "generating" /\ GenMissingField') =>
        /\ treatmentPlan' = FallbackPlan
        /\ result' # null
        /\ result'.treatment_plan = FallbackPlan ]_vars

C1_Witness ==
  /\ GenMissingField
  /\ DOMAIN genResponse.json = PlanFields \ { "chemical_solutions" }
  /\ result # null
  /\ result.treatment_plan = FallbackPlan

\* C2: when the generation request fails (fetch rejects or non-success
\* status) generateTreatmentPlan returns a value, the fallback plan, to
\* handleAssess; the assessment ends with the fallback plan in the result and
\* with the diagnosed disease list.
C2_FailedGenerationGivesFallback ==
  [][ (pc = "generating" /\ GenRequestFailed') =>
        /\ pc' = "idle"
        /\ treatmentPlan' = FallbackPlan
        /\ result' # null
        /\ result'.treatment_plan = FallbackPlan
        /\ result'.diseases = diagResponse.json.health_assessment.diseases ]_vars

C2_Witness ==
  /\ genResponse # null
  /\ genResponse.rejected
  /\ result # null
  /\ result.diseases = << [name |-> "Rust", probability |-> 500] >>
  /\ result.treatment_plan = FallbackPlan

\* C3: a generation request is issued only after the diagnostic request of
\* the same assessment has returned with a success status; none is issued
\* while the diagnostic request is in flight or after it failed.
C3_GenerationAfterDiagnosis ==
  /\ (genRequest # null \/ genCalls > 0) =>
       /\ diagRequest = null
       /\ diagResponse # null
       /\ ~diagResponse.rejected
       /\ diagResponse.ok
  /\ (diagRequest # null \/ DiagRequestFailed(diagResponse)) =>
       /\ genRequest = null
       /\ genCalls = 0

C3_Witness ==
  /\ pc = "generating"
  /\ genRequest # null
  /\ diagRequest = null
  /\ diagResponse.ok

\* C4: a result is displayed only if a diagnostic request has succeeded
\* since the current image was selected; never with no image selected.
C4_ResultOnlyAfterDiagnosis ==
  result # null => (diagnosedSinceSelect /\ selectedImage # null)

C4_Witness ==
  /\ result # null
  /\ diagnosedSinceSelect
  /\ Len(objectUrls) = 2
  /\ result.imageUrl = 2

\* C5 as stated: after an assessment whose diagnostic request failed, the
\* failure is notified, no generation request was issued and no result is
\* displayed, whatever happened before that assessment.
C5_NoResultAfterFailedDiagnosis ==
  (pc = "idle" /\ DiagRequestFailed(diagResponse)) =>
    /\ toasts = << "Assessment Failed" >>
    /\ genCalls = 0
    /\ result = null

\* C5 amended: the step in which the diagnostic request fails notifies
\* 'Assessment Failed', ends the assessment without a generation request and
\* leaves result as it was: null unless an earlier diagnosis of the
\* selected image succeeded.
C5_FailedDiagnosisLeavesResult ==
  [][ (pc = "diagnosing" /\ DiagRequestFailed(diagResponse')) =>
        /\ toasts' = << "Assessment Failed" >>
        /\ genCalls' = 0
        /\ genRequest' = null
        /\ pc' = "idle"
        /\ ~isLoading'
        /\ result' = result
        /\ (~diagnosedSinceSelect => result' = null) ]_vars

C5_Witness ==
  /\ pc = "idle"
  /\ DiagRequestFailed(diagResponse)
  /\ toasts = << "Assessment Failed" >>
  /\ result # null

\* C6: whenever treatment generation fails (fetch rejects, non-success
\* status, or a response that fails validation) the 'Treatment Plan
\* Generation Failed' notification is shown.
C6_GenerationFailureNotified ==
  (GenRequestFailed \/ GenMissingField) =>
    Toasted("Treatment Plan Generation Failed")

\* C7 as stated: the four lists of a displayed result are all empty or all
\* non-empty.
C7_AllEmptyOrAllNonEmpty ==
  result # null =>
    \/ \A f \in PlanFields : result.treatment_plan[f] = <<>>
    \/ \A f \in PlanFields : result.treatment_plan[f] # <<>>

\* C7 amended: the four fields of a displayed result are all present and
\* none is falsy; they are all empty lists while treatment is pending;
\* otherwise the plan is the fallback plan or a service response with all
\* four lists, which may be empty or not independently of each other.
C7_PlanFieldsAllPresent ==
  result # null =>
    /\ DOMAIN result.treatment_plan = PlanFields
    /\ \A f \in PlanFields : ~Falsy(result.treatment_plan[f])
    /\ isGeneratingTreatment => result.treatment_plan = EmptyPlan
    /\ \/ result.treatment_plan = EmptyPlan
       \/ result.treatment_plan = FallbackPlan
       \/ /\ result.treatment_plan \in PlanBodies
          /\ ~isGeneratingTreatment

C7_Witness ==
  /\ result # null
  /\ ~isGeneratingTreatment
  /\ result.treatment_plan.chemical_solutions = <<>>
  /\ result.treatment_plan.immediate_steps # <<>>

\* C8: a step of handleImageSelect with a file leaves result null, the file
\* selected, and previewUrl a new object URL of that file.
C8_SelectClearsResult ==
  [][ Len(objectUrls') > Len(objectUrls) =>
        /\ result' = null
        /\ selectedImage' \in Files
        /\ previewUrl' # previewUrl
        /\ previewUrl' \in 1..Len(objectUrls')
        /\ objectUrls'[previewUrl'] = selectedImage' ]_vars

C8_Witness ==
  /\ result = null
  /\ Toasted("Assessment Complete")
  /\ selectedImage # null
  /\ previewUrl = 2
  /\ objectUrls[2] = selectedImage

\* C9: after a successful diagnosis with zero diseases exactly one
\* generation request is issued, carrying the empty list, and the
\* assessment completes as for a non-empty list.
C9_EmptyListStillGenerates ==
  [][ /\ (pc = "diagnosing" /\ DiagSucceeded'
            /\ diagResponse'.json.health_assessment.diseases = <<>>) =>
           /\ pc' = "generating"
           /\ genCalls' = 1
           /\ genRequest' # null
           /\ genRequest'.diseases = <<>>
           /\ genRequest'.prompt = <<>>
           /\ result' # null
           /\ result'.diseases = <<>>
      /\ (pc = "generating"
            /\ diagResponse.json.health_assessment.diseases = <<>>) =>
           /\ pc' = "idle"
           /\ genCalls' = 1
           /\ genRequest' = null
           /\ toasts' = << "Assessment Complete" >>
           /\ treatmentPlan' # null
           /\ result' # null
           /\ result'.diseases = <<>>
           /\ result'.treatment_plan = treatmentPlan'
           /\ ~isLoading'
           /\ ~isGeneratingTreatment' ]_vars

C9_Witness ==
  /\ DiagSucceeded
  /\ diagResponse.json.health_assessment.diseases = <<>>
  /\ pc = "idle"
  /\ genCalls = 1
  /\ toasts = << "Assessment Complete" >>

\* C10: one invocation of handleAssess issues at most one diagnostic and at
\* most one generation request, whatever their outcomes, and none is in
\* flight once the invocation has ended.
C10_NoRetry ==
  /\ diagCalls <= 1
  /\ genCalls <= 1
  /\ pc = "idle" => (diagRequest = null /\ genRequest = null)
  /\ (pc = "idle" /\ DiagRequestFailed(diagResponse)) => diagCalls = 1
  /\ (pc = "idle" /\ GenRequestFailed) => genCalls = 1

C10_Witness ==
  /\ pc = "idle"
  /\ GenRequestFailed
  /\ diagCalls = 1
  /\ genCalls = 1


\* C11 as stated: while assessing (diagnosis in flight) isLoading holds,
\* isGeneratingTreatment does not and no result is displayed; while
\* treatment is pending both flags hold and the result has four empty lists.
C11_StagesAsStated ==
  /\ pc \in { "reading", "diagnosing" } =>
       (isLoading /\ ~isGeneratingTreatment /\ result = null)
  /\ isGeneratingTreatment =>
       (isLoading /\ result # null /\ result.treatment_plan = EmptyPlan)

\* C11 amended: an assessment goes from assessing (isLoading, not
\* isGeneratingTreatment, result left as it was at the click) to treatment
\* pending (both flags true, result holding the diagnosed diseases and four
\* empty lists) to complete (both flags false, the plan that
\* generateTreatmentPlan returned in the result), or from assessing to
\* failed; isGeneratingTreatment implies isLoading and a non-null result.
C11_AssessmentStages ==
  [][ /\ (pc = "idle" /\ pc' # "idle") =>
           /\ pc' = "reading"
           /\ isLoading' /\ ~isGeneratingTreatment'
           /\ result' = result
      /\ pc = "reading" =>
           /\ pc' \in { "diagnosing", "hung" }
           /\ isLoading' /\ ~isGeneratingTreatment'
           /\ result' = result
      /\ pc = "diagnosing" =>
           \/ /\ pc' = "generating"
              /\ isLoading' /\ isGeneratingTreatment'
              /\ result' # null
              /\ result'.diseases = diagResponse'.json.health_assessment.diseases
              /\ result'.treatment_plan = EmptyPlan
           \/ /\ pc' = "idle"
              /\ ~isLoading' /\ ~isGeneratingTreatment'
              /\ result' = result
      /\ pc = "generating" =>
           /\ pc' = "idle"
           /\ ~isLoading' /\ ~isGeneratingTreatment'
           /\ result' # null
           /\ treatmentPlan' # null
           /\ result'.treatment_plan = treatmentPlan'
      /\ isGeneratingTreatment' => (isLoading' /\ result' # null) ]_vars

C11_Witness ==
  /\ pc = "diagnosing"
  /\ isLoading
  /\ ~isGeneratingTreatment
  /\ result # null
  /\ result.treatment_plan # EmptyPlan


\* C12: every started assessment eventually ends with isLoading and
\* isGeneratingTreatment false, given that the file read ends and every
\* network call settles.
C12_LoadingEnds ==
  isLoading ~> (~isLoading /\ ~isGeneratingTreatment)


\* C13: a displayed result belongs to the selected image: its imageUrl is
\* the current previewUrl, an object URL of the selected file, and its
\* diseases are the answer to the diagnostic request that carried the data
\* of the selected file.
C13_ResultOfSelectedImage ==
  [][ /\ result' # null =>
           /\ result'.imageUrl = previewUrl'
           /\ result'.imageUrl \in 1..Len(objectUrls')
           /\ objectUrls'[result'.imageUrl] = selectedImage'
      /\ (pc = "diagnosing" /\ pc' = "generating") =>
           /\ diagRequest.images[1].base64 = selectedImage'.data
           /\ result'.diseases = diagResponse'.json.health_assessment.diseases
      /\ (result # null /\ result' # null) =>
           result'.diseases = result.diseases \/ pc = "diagnosing" ]_vars

C13_Witness ==
  /\ result # null
  /\ previewUrl = 2
  /\ result.imageUrl = 2
  /\ objectUrls[1] # objectUrls[2]
  /\ selectedImage = objectUrls[2]
  /\ result.diseases # <<>>

\* C14: while isLoading is true no image selection and no second
\* handleAssess starts: the selection, the captured closure and the
\* position of the one running handleAssess only move forward, and
\* isLoading is true exactly while a handleAssess is running.
C14_OneAssessmentInFlight ==
  [][ /\ isLoading =>
           /\ selectedImage' = selectedImage
           /\ previewUrl' = previewUrl
           /\ objectUrls' = objectUrls
           /\ pc' = "reading" => pc = "reading"
           /\ closure' \in { closure, null }
           /\ diagCalls' >= diagCalls
           /\ genCalls' >= genCalls
      /\ isLoading' <=> pc' # "idle" ]_vars

C14_Witness ==
  /\ isLoading
  /\ pc = "diagnosing"
  /\ selectedImage # null
  /\ Len(objectUrls) < MaxUrls


\* C15: within one assessment result is created in the step in which the
\* diagnosis succeeds and in no other; its treatment plan is set in the step
\* in which the treatment plan resolves and in no other; that step keeps
\* diseases and imageUrl, and keeps a null result null.
C15_ResultLifecycle ==
  [][ /\ (pc = "diagnosing" /\ pc' = "generating") =>
           /\ result' # null
           /\ result'.treatment_plan = EmptyPlan
      /\ (pc # "idle" /\ ~(pc = "diagnosing" /\ pc' = "generating")
            /\ pc # "generating") =>
           result' = result
      /\ pc = "generating" =>
           /\ result = null => result' = null
           /\ result # null =>
                /\ result' # null
                /\ result'.diseases = result.diseases
                /\ result'.imageUrl = result.imageUrl
                /\ result'.treatment_plan = treatmentPlan'
                /\ result.treatment_plan = EmptyPlan
      /\ (pc = "idle" /\ result' # result) => result' = null ]_vars

C15_Witness ==
  /\ pc = "idle"
  /\ genResponse # null
  /\ treatmentPlan # null
  /\ result # null
  /\ result.treatment_plan = treatmentPlan
  /\ result.treatment_plan # EmptyPlan
  /\ result.diseases # <<>>

\* the notifications that end an assessment, among those issued
FinalToasts ==
  { i \in 1..Len(toasts) :
      toasts[i] \in { "Assessment Complete", "Assessment Failed" } }

\* C16: an assessment that finishes has issued exactly one of 'Assessment
\* Complete' and 'Assessment Failed': the first if and only if its diagnosis
\* succeeded (success status and a body with the disease list), also when
\* the fallback plan was substituted, the second if and only if it failed.
C16_OneFinalToast ==
  [][ (pc # "idle" /\ pc' = "idle") =>
        /\ Cardinality(FinalToasts') = 1
        /\ toasts'[Len(toasts')] =
             IF DiagSucceeded' THEN "Assessment Complete" ELSE "Assessment Failed"
        /\ Toasted("Assessment Complete")' <=> DiagSucceeded'
        /\ Toasted("Assessment Failed")' <=> ~DiagSucceeded' ]_vars

C16_Witness ==
  /\ pc = "idle"
  /\ GenRequestFailed
  /\ treatmentPlan = FallbackPlan
  /\ toasts = << "Assessment Complete" >>


\* C17: a step of handleAssess taken with no image selected issues no
\* request and changes none of isLoading, isGeneratingTreatment, result,
\* selectedImage and previewUrl; it only notifies 'No image selected'.
C17_NoImageOnlyNotifies ==
  [][ (selectedImage = null /\ selectedImage' = null) =>
        /\ toasts' = << "No image selected" >>
        /\ UNCHANGED reactState
        /\ pc' = "idle"
        /\ diagRequest' = null
        /\ genRequest' = null
        /\ diagCalls' = 0
        /\ genCalls' = 0 ]_vars

C17_Witness ==
  /\ selectedImage = null
  /\ toasts = << "No image selected" >>
  /\ ~isLoading
  /\ ~isGeneratingTreatment
  /\ result = null
  /\ previewUrl = 0
  /\ pc = "idle"

\* C18: a change event of the file input that carries no file changes none
\* of selectedImage, previewUrl and result.
C18_CancelledDialogKeepsState ==
  [][ handleImageSelect(null) =>
        (selectedImage' = selectedImage /\ previewUrl' = previewUrl
           /\ result' = result) ]_vars

C18_Witness ==
  /\ ENABLED handleImageSelect(null)
  /\ selectedImage # null
  /\ result # null

====
